---- MODULE Spec2Model ----
(***************************************************************************)
(* Resegmentation (pyannote.audio.labeling.tasks.resegmentation): the      *)
(* label post-processor ResegmentationGenerator.postprocess_y and the      *)
(* Resegmentation driver (n_classes, get_dummy_protocol, get_hypothesis,   *)
(* apply_iter, apply) as a state machine.                                  *)
(*                                                                         *)
(* Python values are encoded as follows.  An optional value (a missing     *)
(* attribute, an unbound local, None) is the empty tuple <<>> and a        *)
(* present value v is <<v>>.  Objects that are shared by reference (file   *)
(* records, which are dicts) live in `heap` and are named by a reference.  *)
(* A hypothesis is [src, labels]: src = 0 for a hypothesis supplied by     *)
(* the caller, src = k for the one inferred from the snapshot of epoch k.  *)
(***************************************************************************)
EXTENDS Integers, Sequences, FiniteSets, TLC

\* ------------------------------------------------------------------ bounds
MaxEpochs == 2      \* self.epochs ranges over 0..MaxEpochs
MaxLabels == 2      \* a hypothesis has the speaker labels 1..K, K <= MaxLabels
MaxSamples == 2     \* rows of the matrix given to postprocess_y
MaxSpeakers == 2    \* columns of the matrix given to postprocess_y
MaxVal == 2         \* entries of the matrix are in 0..MaxVal

\* epochs=10 is the constructor's default
DefaultEpochs == 10

Files == {"f1"}                \* the caller's file records (references)
Refs == Files \cup {"wc"}      \* "wc": the dict allocated by dict(current_file)
LogDirs == {"logs"}
Labels == 1..MaxLabels

\* an annotation the caller's record carries under 'annotation'
Manual == [src |-> -1, labels |-> {1}]

VARIABLES
    self,       \* the Resegmentation instance: epochs, per_epoch, n_classes_, y_
    heap,       \* reference -> optional file record [uri, annotation]
    protocol,   \* optional DummyProtocol (the closure's current_file)
    given,      \* optional reference last passed to get_dummy_protocol
    gen,        \* the apply_iter generator frame: pc and locals
    fit,        \* optional fit_iter generator: its arguments and epochs done
    out,        \* hypotheses yielded so far by the current apply_iter call
    trained,    \* the annotation the training file carried at each epoch
    call,       \* optional arguments of the current apply / apply_iter call
    last,       \* the operation performed last and what the caller got
    Y,          \* the matrix given to postprocess_y
    y           \* optional result of postprocess_y

vars == <<self, heap, protocol, given, gen, fit, out, trained, call, last, Y, y>>

\* ------------------------------------------------- small helpers
RECURSIVE SumSeq(_)
SumSeq(s) == IF s = <<>> THEN 0 ELSE s[1] + SumSeq(Tail(s))

\* ------------------------------------------------- postprocess_y
\* np.argmax over one row: 0-based index of the first maximal entry
RECURSIVE ArgMaxFrom(_, _, _)
ArgMaxFromLast(row, i, best) ==
    IF i > Len(row) THEN best - 1
    ELSE ArgMaxFrom(row, i + 1, IF row[i] >= row[best] THEN i ELSE best)

ArgMaxFrom(row, i, best) ==
    IF i > Len(row) THEN best - 1
    ELSE ArgMaxFrom(row, i + 1, IF row[i] > row[best] THEN i ELSE best)

ArgMax(row) == ArgMaxFrom(row, 2, 1)

\* non_speech = np.sum(Y, axis=1) == 0
NonSpeech(M) == [i \in 1..Len(M) |-> SumSeq(M[i]) = 0]

postprocess_y(M) ==
    LET y0 == [i \in 1..Len(M) |-> ArgMax(M[i]) + 1]
        non_speech == NonSpeech(M)
        y1 == [i \in 1..Len(M) |-> IF non_speech[i] THEN 0 ELSE y0[i]]
    IN  [i \in 1..Len(M) |-> <<y1[i]>>]      \* [:, np.newaxis]

Matrices ==
    UNION { [1..n -> [1..s -> 0..MaxVal]] : n \in 0..MaxSamples, s \in 1..MaxSpeakers }

\* ------------------------------------------------- the driver's pieces
Resegmentation(epochs) ==
    [epochs |-> epochs, per_epoch |-> <<>>, n_classes_ |-> <<>>, y_ |-> <<>>]

\* the n_classes property
n_classes_default(s) ==
    IF s.n_classes_ = <<>> THEN [exc |-> "", val |-> <<1>>]
    ELSE [exc |-> "", val |-> s.n_classes_]

n_classes(s) ==
    IF s.n_classes_ = <<>> THEN [exc |-> "AttributeError", val |-> <<>>]
    ELSE [exc |-> "", val |-> s.n_classes_]

get_dummy_protocol(current_file) == [current_file |-> current_file]

trn_iter(p) == <<p.current_file>>

dev_iter_twice(p) == <<p.current_file, p.current_file>>

dev_iter(p) == <<p.current_file>>

tst_iter(p) == <<p.current_file>>

\* get_hypothesis: inference with the snapshot of epoch `snapshot`; S is the
\* set of labels the inferred annotation turns out to have
get_hypothesis_relabel(s, snapshot, S) ==
    LET hyp == [src |-> snapshot, labels |-> S]
    IN  [self |-> [s EXCEPT !.y_ = <<hyp>>, !.n_classes_ = <<Cardinality(S) + 1>>],
         hyp |-> hyp]

get_hypothesis(s, snapshot, S) ==
    LET hyp == [src |-> snapshot, labels |-> S]
    IN  [self |-> [s EXCEPT !.y_ = <<hyp>>], hyp |-> hyp]

\* current_file = dict(current_file): the reference of the dict the local
\* current_file is bound to afterwards
WorkingAlias(f) == f

WorkingRef(f) == "wc"

\* get_annotated(current_file).duration()
AnnotatedDuration(rec) == IF rec.uri = "f1" THEN 10 ELSE 20

get_unique_identifier(rec) == rec.uri

\* log_dir = 'f{log_dir}/{uri}'
FormatLogDir(log_dir, uri) == "f{log_dir}/{uri}"

StackedRNN(n) == [n_out |-> n]

\* self.fit_iter(model, precomputed, protocol, log_dir=, epochs=, gpu=):
\* a lazy sequence of `epochs` snapshots
fit_iter(model, p, log_dir, epochs) ==
    [model |-> model, protocol |-> p, log_dir |-> log_dir, epochs |-> epochs, done |-> 0]


\* ------------------------------------------------- the world the driver acts on
World ==
    [self |-> self, heap |-> heap, protocol |-> protocol, given |-> given,
     gen |-> gen, fit |-> fit, out |-> out, trained |-> trained]

NoGen ==
    [pc |-> "none", current_file |-> "f1", hypothesis |-> Manual, partial |-> FALSE,
     log_dir |-> <<>>, iteration |-> <<>>]

\* Calling the generator function apply_iter binds its parameters and runs
\* none of its body.
NewGenerator(w, f, h, partial, d) ==
    [w EXCEPT !.gen = [pc |-> "start", current_file |-> f, hypothesis |-> h,
                       partial |-> partial, log_dir |-> d, iteration |-> <<>>],
              !.fit = <<>>, !.out = <<>>, !.trained = <<>>]

\* apply_iter, from its first line to the call of fit_iter
Setup(w) ==
    LET g == w.gen
        ref == WorkingRef(g.current_file)
        copied == [w.heap EXCEPT ![ref] = w.heap[g.current_file]]
        heap1 == [copied EXCEPT ![ref] = <<[copied[ref][1] EXCEPT !.annotation = <<g.hypothesis>>]>>]
        rec == heap1[ref][1]
        self1 == [w.self EXCEPT !.per_epoch = <<AnnotatedDuration(rec)>>,
                                !.n_classes_ = <<Cardinality(g.hypothesis.labels) + 1>>]
        model == StackedRNN(n_classes(self1).val[1])
        p == get_dummy_protocol(ref)
        log_dir == IF g.log_dir # <<>>
                   THEN <<FormatLogDir(g.log_dir[1], get_unique_identifier(rec))>>
                   ELSE <<>>
    IN  [w EXCEPT !.heap = heap1, !.self = self1, !.protocol = <<p>>, !.given = <<ref>>,
                  !.gen = [g EXCEPT !.current_file = ref, !.log_dir = log_dir],
                  !.fit = <<fit_iter(model, p, log_dir, self1.epochs)>>]

\* one epoch of fit_iter: it trains on the file its protocol's trn_iter gives
FitEpoch(w) ==
    LET f == trn_iter(w.fit[1].protocol)[1]
    IN  [w EXCEPT !.fit = <<[w.fit[1] EXCEPT !.done = @ + 1]>>,
                  !.trained = Append(w.trained, w.heap[f][1].annotation)]

RECURSIVE FitAll(_)
FitAll(w) == IF w.fit[1].done < w.fit[1].epochs THEN FitAll(FitEpoch(w)) ELSE w

\* `for iteration in self.fit_iter(...)`: each pass of the loop asks fit_iter
\* for one more snapshot
ForNextEager(w) ==
    LET w1 == FitAll(w)
    IN  [w1 EXCEPT !.gen.iteration = <<w1.fit[1].done>>]

ForNext(w) ==
    LET w1 == FitEpoch(w)
    IN  [w1 EXCEPT !.gen.iteration = <<w1.fit[1].done>>]

\* `if partial:` in the loop body
InLoopYieldNever(partial) == FALSE

InLoopYield(partial) == partial

\* hypothesis = self.get_hypothesis(iteration['model'], current_file, gpu=gpu)
Infer(w, S) ==
    LET r == get_hypothesis(w.self, w.gen.iteration[1], S)
    IN  [w EXCEPT !.self = r.self, !.gen.hypothesis = r.hyp]

\* `yield hypothesis`, suspending at pc
Yield(w, pc) == [w EXCEPT !.out = Append(w.out, w.gen.hypothesis), !.gen.pc = pc]

\* the code after the loop: `if not partial:` ... `yield hypothesis`
AfterLoop(w, S) ==
    IF ~w.gen.partial
    THEN IF w.gen.iteration = <<>>
         THEN [w EXCEPT !.gen.pc = "raised"]          \* UnboundLocalError
         ELSE Yield(Infer(w, S), "tail")
    ELSE Yield(w, "tail")

\* the for loop, entered or resumed, up to the next yield or the end
RECURSIVE Loop(_, _)
Loop(w, S) ==
    IF w.fit[1].done < w.fit[1].epochs
    THEN LET w1 == ForNext(w)
         IN  IF InLoopYield(w1.gen.partial)
             THEN Yield(Infer(w1, S), "loop")
             ELSE Loop(w1, S)
    ELSE AfterLoop(w, S)

\* next(generator)
Resume(w, S) ==
    CASE w.gen.pc = "start" -> Loop(Setup(w), S)
      [] w.gen.pc = "loop"  -> Loop(w, S)
      [] w.gen.pc = "tail"  -> [w EXCEPT !.gen.pc = "done"]
      [] OTHER              -> w

\* what next(generator) gives the caller
Outcome(op, w0, w1) ==
    IF w1.gen.pc = "raised" /\ w0.gen.pc # "raised"
    THEN [op |-> op, exc |-> "UnboundLocalError", val |-> <<>>]
    ELSE IF Len(w1.out) > Len(w0.out)
    THEN [op |-> op, exc |-> "", val |-> <<w1.out[Len(w1.out)]>>]
    ELSE [op |-> op, exc |-> "StopIteration", val |-> <<>>]

\* apply: `for hypothesis in self.apply_iter(...): pass` then `return hypothesis`
RECURSIVE Drain(_, _, _)
Drain(w, S, hypothesis) ==
    IF w.gen.pc = "raised"
    THEN [w |-> w, exc |-> "UnboundLocalError", val |-> <<>>]
    ELSE IF w.gen.pc = "done"
    THEN [w |-> w, exc |-> "", val |-> <<hypothesis>>]
    ELSE LET w1 == Resume(w, S)
         IN  Drain(w1, S, IF Len(w1.out) > Len(w.out) THEN w1.out[Len(w1.out)] ELSE hypothesis)

SetWorld(w) ==
    /\ self' = w.self
    /\ heap' = w.heap
    /\ protocol' = w.protocol
    /\ given' = w.given
    /\ gen' = w.gen
    /\ fit' = w.fit
    /\ out' = w.out
    /\ trained' = w.trained

\* label sets up to renaming: the labels are 1..K
LabelSets == {1..k : k \in 0..MaxLabels}

Hypotheses == [src : {0}, labels : LabelSets]

\* ------------------------------------------------- initial states
DriverInit(epochs) ==
    /\ self = Resegmentation(epochs)
    /\ heap = [r \in Refs |-> IF r \in Files
                              THEN <<[uri |-> r, annotation |-> <<Manual>>]>>
                              ELSE <<>>]
    /\ protocol = <<>>
    /\ given = <<>>
    /\ gen = NoGen
    /\ fit = <<>>
    /\ out = <<>>
    /\ trained = <<>>
    /\ call = <<>>
    /\ last = [op |-> "init", exc |-> "", val |-> <<>>]

Init ==
    /\ \E e \in 0..MaxEpochs : DriverInit(e)
    /\ Y = <<>>
    /\ y = <<>>

\* ------------------------------------------------- actions
\* the caller calls apply_iter(current_file, hypothesis, partial=, log_dir=)
CallApplyIter(f, h, partial, d) ==
    /\ SetWorld(NewGenerator(World, f, h, partial, d))
    /\ call' = <<[op |-> "apply_iter", file |-> f, hypothesis |-> h,
                  partial |-> partial, log_dir |-> d]>>
    /\ last' = [op |-> "apply_iter", exc |-> "", val |-> <<>>]
    /\ UNCHANGED <<Y, y>>

\* the caller pulls the next hypothesis from the generator
PullNext(S) ==
    /\ gen.pc # "none"
    /\ S \subseteq call[1].hypothesis.labels
    /\ LET w1 == Resume(World, S)
       IN  /\ SetWorld(w1)
           /\ last' = Outcome("next", World, w1)
    /\ UNCHANGED <<call, Y, y>>

\* the caller calls apply(current_file, hypothesis, log_dir=)
Apply(f, h, d, S) ==
    /\ S \subseteq h.labels
    /\ LET r == Drain(NewGenerator(World, f, h, FALSE, <<>>), S, h)
       IN  /\ SetWorld(r.w)
           /\ last' = [op |-> "apply", exc |-> r.exc, val |-> r.val]
    /\ call' = <<[op |-> "apply", file |-> f, hypothesis |-> h,
                  partial |-> FALSE, log_dir |-> d]>>
    /\ UNCHANGED <<Y, y>>

\* the caller reads the n_classes property
QueryNClasses ==
    /\ last' = [op |-> "n_classes", exc |-> n_classes(self).exc, val |-> n_classes(self).val]
    /\ UNCHANGED <<self, heap, protocol, given, gen, fit, out, trained, call, Y, y>>

\* the caller calls get_dummy_protocol on one of its records
CallGetDummyProtocol(f) ==
    /\ protocol' = <<get_dummy_protocol(f)>>
    /\ given' = <<f>>
    /\ last' = [op |-> "get_dummy_protocol", exc |-> "", val |-> <<>>]
    /\ UNCHANGED <<self, heap, gen, fit, out, trained, call, Y, y>>

\* the protocol's iterators, each consumed to exhaustion
TrnIter ==
    /\ protocol # <<>>
    /\ last' = [op |-> "trn_iter", exc |-> "", val |-> trn_iter(protocol[1])]
    /\ UNCHANGED <<self, heap, protocol, given, gen, fit, out, trained, call, Y, y>>

DevIter ==
    /\ protocol # <<>>
    /\ last' = [op |-> "dev_iter", exc |-> "", val |-> dev_iter(protocol[1])]
    /\ UNCHANGED <<self, heap, protocol, given, gen, fit, out, trained, call, Y, y>>

TstIter ==
    /\ protocol # <<>>
    /\ last' = [op |-> "tst_iter", exc |-> "", val |-> tst_iter(protocol[1])]
    /\ UNCHANGED <<self, heap, protocol, given, gen, fit, out, trained, call, Y, y>>

Next ==
    \/ \E f \in Files, h \in Hypotheses, partial \in BOOLEAN, d \in {<<>>} \cup {<<l>> : l \in LogDirs} :
          CallApplyIter(f, h, partial, d)
    \/ \E S \in LabelSets : PullNext(S)
    \/ \E f \in Files, h \in Hypotheses, d \in {<<>>} \cup {<<l>> : l \in LogDirs}, S \in LabelSets :
          Apply(f, h, d, S)
    \/ QueryNClasses
    \/ \E f \in Files : CallGetDummyProtocol(f)
    \/ TrnIter
    \/ DevIter
    \/ TstIter

Spec == Init /\ [][Next]_vars

\* ------------------------------------------------- postprocess_y alone
InitPost ==
    /\ DriverInit(DefaultEpochs)
    /\ Y \in Matrices
    /\ y = <<>>

PostprocessY ==
    /\ y = <<>>
    /\ y' = <<postprocess_y(Y)>>
    /\ UNCHANGED <<self, heap, protocol, given, gen, fit, out, trained, call, last, Y>>

NextPost == PostprocessY

SpecPost == InitPost /\ [][NextPost]_vars

\* ------------------------------------------------- properties
Started == call # <<>> /\ gen.pc \in {"loop", "tail", "done", "raised"}

EpochsDone(ft) == IF ft = <<>> THEN 0 ELSE ft[1].done

\* C1: postprocess_y gives one label per row of Y, in order; the label of a
\* row whose sum is zero is 0, the label of any other row is 1 + the index
\* of its first maximal entry; every label is in 0..speakers.
C1_PostprocessY ==
    y # <<>> =>
        /\ Len(y[1]) = Len(Y)
        /\ \A i \in 1..Len(Y) :
              LET row == Y[i]
                  lab == y[1][i][1]
              IN  /\ Len(y[1][i]) = 1
                  /\ lab \in 0..Len(row)
                  /\ (SumSeq(row) = 0 => lab = 0)
                  /\ (SumSeq(row) # 0 =>
                        /\ lab >= 1
                        /\ \A k \in 1..Len(row) : row[k] <= row[lab]
                        /\ \A k \in 1..(lab - 1) : row[k] < row[lab])

C1_Witness ==
    /\ Y = << <<0, 0>>, <<2, 2>> >>
    /\ y = << << <<0>>, <<1>> >> >>

C1_WitnessSecondChannel ==
    /\ Y = << <<1, 2>>, <<0, 0>> >>
    /\ y = << << <<2>>, <<0>> >> >>

\* C2: with partial=True and E snapshots from fit_iter, a generator pulled to
\* exhaustion has yielded E+1 hypotheses: the k-th, k <= E, is the one
\* inferred from snapshot k, and the last is the trailing yield of the local
\* `hypothesis` after the loop.
C2_PartialYieldsEPlusOne ==
    (call # <<>> /\ call[1].partial /\ fit # <<>>) =>
        LET E == fit[1].epochs
        IN  /\ Len(out) <= E + 1
            /\ gen.pc = "done" =>
                  /\ Len(out) = E + 1
                  /\ \A k \in 1..E : out[k].src = k
                  /\ out[E + 1] = (IF E = 0 THEN call[1].hypothesis ELSE out[E])

C2_Witness ==
    /\ call # <<>> /\ call[1].partial
    /\ gen.pc = "done"
    /\ fit[1].epochs = 2
    /\ Len(out) = 3

\* C3: a generator pulled to exhaustion has yielded the hypothesis inferred
\* from the last snapshot exactly once (stated here for E >= 1).
C3_FinalYieldedOnce ==
    (call # <<>> /\ gen.pc = "done" /\ fit[1].epochs >= 1) =>
        Cardinality({i \in 1..Len(out) : out[i].src = fit[1].epochs}) = 1

\* C4: with partial=False and any E >= 0, once the generator has been pulled
\* it has yielded exactly one hypothesis, after all E snapshots, inferred
\* from the last one; apply returns that hypothesis.
C4_NonPartialSingleYield ==
    (call # <<>> /\ ~call[1].partial /\ gen.pc \in {"tail", "done", "raised"}) =>
        /\ Len(out) = 1
        /\ fit[1].done = fit[1].epochs
        /\ out[1].src = fit[1].epochs
        /\ (last.op = "apply" => last.exc = "" /\ last.val = <<out[1]>>)

\* C5: before the first apply / apply_iter invocation, reading n_classes
\* raises AttributeError, returns nothing and changes nothing.
C5_NClassesBeforeApply ==
    [][ (gen.pc = "none" /\ last'.op = "n_classes") =>
            /\ last'.exc = "AttributeError"
            /\ last'.val = <<>>
            /\ UNCHANGED <<self, heap, protocol, given, gen, fit, out, trained, call>> ]_vars

C5_Witness ==
    /\ gen.pc = "none"
    /\ last.op = "n_classes"
    /\ last.exc = "AttributeError"
    /\ protocol # <<>>

\* C6: from the moment apply_iter has computed it, through every yield and
\* after the call has ended, n_classes is K+1 for the K labels of the
\* initial hypothesis, whatever the inferred hypotheses look like.
C6_NClassesFrozen ==
    Started =>
        n_classes(self) = [exc |-> "", val |-> <<Cardinality(call[1].hypothesis.labels) + 1>>]

C6_Witness ==
    /\ Started
    /\ gen.pc = "done"
    /\ Len(out) = 3
    /\ Cardinality(call[1].hypothesis.labels) = 2
    /\ Cardinality(out[1].labels) = 1
    /\ Cardinality(out[2].labels) = 0
    /\ self.n_classes_ = <<3>>

\* C7: the log directory handed to fit_iter is d/u when the caller gave the
\* log directory d for the file with unique identifier u, and None when the
\* caller gave none (stated for the calls that do not end in an exception).
C7_LogDirPath ==
    (call # <<>> /\ fit # <<>> /\ gen.pc # "raised") =>
        fit[1].log_dir =
            (IF call[1].log_dir = <<>> THEN <<>>
             ELSE <<call[1].log_dir[1] \o "/" \o get_unique_identifier(heap[call[1].file][1])>>)

\* C8: each of trn_iter, dev_iter and tst_iter of the protocol made by
\* get_dummy_protocol(current_file), whenever it is called, gives exactly one
\* element, the record object that was passed in, and changes neither the
\* records nor the protocol.
C8_DummyProtocol ==
    [][ (last'.op \in {"trn_iter", "dev_iter", "tst_iter"}) =>
            /\ given # <<>>
            /\ last'.val = <<given[1]>>
            /\ last'.exc = ""
            /\ UNCHANGED <<heap, protocol, given>> ]_vars

C8_Witness ==
    /\ last.op = "dev_iter"
    /\ last.val = <<"wc">>
    /\ gen.pc = "loop"
    /\ Len(out) = 2
    /\ heap["wc"][1].annotation = <<call[1].hypothesis>>

C8_WitnessCallerRecord ==
    /\ last.op = "tst_iter"
    /\ last.val = <<"f1">>
    /\ gen.pc = "done"

\* C9: once apply_iter has started, the working record is a dict of its own
\* whose 'annotation' is the initial hypothesis, every epoch has trained on
\* the initial hypothesis, and the caller's records are as they were.
C9_WorkingAnnotationFixed ==
    /\ \A f \in Files : heap[f] = <<[uri |-> f, annotation |-> <<Manual>>]>>
    /\ Started =>
          /\ gen.current_file \notin Files
          /\ heap[gen.current_file] # <<>>
          /\ heap[gen.current_file][1].annotation = <<call[1].hypothesis>>
          /\ Len(trained) = fit[1].done
          /\ \A i \in 1..Len(trained) : trained[i] = <<call[1].hypothesis>>

C9_Witness ==
    /\ Started
    /\ call[1].partial
    /\ gen.pc = "loop"
    /\ Len(trained) = 2
    /\ Len(out) = 2
    /\ out[1].labels # call[1].hypothesis.labels
    /\ trained[2] = <<call[1].hypothesis>>

\* C10: with partial=True the generator is suspended after each epoch: when
\* it waits at the in-loop yield it has yielded k hypotheses, 1 <= k <= E,
\* the last inferred from snapshot k, and exactly k epochs have run; an
\* epoch runs only inside a pull, one epoch per pull, and that pull ends by
\* yielding the hypothesis of that epoch.
C10_SuspendedAfterEpoch ==
    (call # <<>> /\ call[1].partial /\ gen.pc = "loop") =>
        /\ Len(out) >= 1
        /\ Len(out) <= fit[1].epochs
        /\ fit[1].done = Len(out)
        /\ out[Len(out)].src = Len(out)

C10_EpochOnlyOnPull ==
    (call' # <<>> /\ call'[1].partial /\ EpochsDone(fit') # EpochsDone(fit) /\ fit' # <<>>) =>
        /\ last'.op = "next"
        /\ EpochsDone(fit') = EpochsDone(fit) + 1
        /\ out' = Append(out, [src |-> EpochsDone(fit'), labels |-> out'[Len(out')].labels])
        /\ gen'.pc = "loop"

C10_PartialSuspends == [](C10_SuspendedAfterEpoch) /\ [][C10_EpochOnlyOnPull]_vars

C10_Witness ==
    /\ call # <<>> /\ call[1].partial
    /\ gen.pc = "loop"
    /\ fit[1].epochs = 2
    /\ fit[1].done = 1
    /\ Len(out) = 1
    /\ last.op = "n_classes"

====
